---- MODULE Spec2Model ----
(***************************************************************************)
(* The chat session of the Chat component (Chat.tsx): message list, input  *)
(* buffer, input history, pinned messages and their stored mirror, slash   *)
(* commands, the long-press timer, the speech recognizer and the life of a *)
(* completion request; and around it the authenticated flag of            *)
(* AuthProvider, the routes of the application and the login form.  A text *)
(* is a sequence of one-character strings; the fixed parts of a template   *)
(* literal are kept as whole chunks.                                       *)
(***************************************************************************)
EXTENDS Integers, Sequences, FiniteSets, TLC

\* Bounds of the model.
MaxId == 4          \* message ids generated in one run
MaxHistoryId == 6   \* message ids generated in one run that types free texts only
MaxTimers == 2      \* long-press timers armed in one run
MaxPinTimers == 1   \* long-press timers armed in one run that also uses the pin buttons
MaxInput == 2       \* longest input buffer a speech result may produce

VARIABLES
  messages,         \* useState<Message[]>([])
  input,            \* useState('')
  isLoading,        \* useState(false)
  inputHistory,     \* useState<string[]>([])
  historyIndex,     \* useState(-1)
  isListening,      \* useState(false)
  isVoiceSupported, \* useState(false), set by the mount effect
  showPinnedPanel,  \* useState(false)
  pinnedMessages,   \* useState<Message[]>([]): the items, when the value is an array
  pinnedShape,      \* what kind of value pinnedMessages holds: array, or what JSON.parse gave
  longPressTimer,   \* useState<Timeout | null>(null); 0 is null
  theme,            \* useState(localStorage.theme || ...)
  storedPinned,     \* localStorage 'pinnedMessages': the kind of text and, of an array, its items
  recognizer,       \* recognitionRef.current: idle, started, or resulted (result delivered, end to come)
  timers,           \* pending setTimeout callbacks of handleMouseDown
  inflight,         \* completion attempts started and not yet settled
  apiKey,           \* import.meta.env.VITE_GEMINI_API_KEY is set
  nextId,           \* the next value of generateMessageId
  nextTimer,        \* the next timer handle of setTimeout
  lastOp,           \* the handler that ran last
  threw,            \* whether that handler threw
  effects,          \* what that handler did outside the state: alert, download, fetch
  vocabulary,       \* the texts the user types in this run
  isAuthenticated,  \* AuthProvider: useState(false)
  route,            \* the view the router shows: login, register or chat
  credentials,      \* the email and password of the last login or register call
  loginForm         \* Login: email, password, error, isLoading

vars == <<messages, input, isLoading, inputHistory, historyIndex, isListening,
          isVoiceSupported, showPinnedPanel, pinnedMessages, pinnedShape, longPressTimer,
          theme, storedPinned, recognizer, timers, inflight, apiKey, nextId,
          nextTimer, lastOp, threw, effects, vocabulary, isAuthenticated, route,
          credentials, loginForm>>

----------------------------------------------------------------------------
\* String operations of the code, on sequences of characters.

UpperToLower ==
  [c \in {"H", "E", "L", "P"} |->
     CASE c = "H" -> "h" [] c = "E" -> "e" [] c = "L" -> "l" [] c = "P" -> "p"]

\* String.prototype.toLowerCase
toLowerCase(s) ==
  [i \in 1..Len(s) |-> IF s[i] \in DOMAIN UpperToLower THEN UpperToLower[s[i]] ELSE s[i]]

RECURSIVE TrimStart(_)
TrimStart(s) == IF s # <<>> /\ Head(s) = " " THEN TrimStart(Tail(s)) ELSE s

RECURSIVE TrimEnd(_)
TrimEnd(s) ==
  IF s # <<>> /\ s[Len(s)] = " " THEN TrimEnd(SubSeq(s, 1, Len(s) - 1)) ELSE s

\* String.prototype.trim
trim(s) == TrimEnd(TrimStart(s))

\* String.prototype.startsWith, for a one-character prefix
startsWith(s, c) == s # <<>> /\ s[1] = c

\* String.prototype.replace(c, ''): only the first occurrence goes
RECURSIVE replaceFirst(_, _)
replaceFirst(s, c) ==
  IF s = <<>> THEN <<>>
  ELSE IF Head(s) = c THEN Tail(s)
  ELSE <<Head(s)>> \o replaceFirst(Tail(s), c)

\* String.prototype.includes
includes(s, part) ==
  \E i \in 0..(Len(s) - Len(part)) : SubSeq(s, i + 1, i + Len(part)) = part

----------------------------------------------------------------------------
\* The command registry (slashCommands) and the texts it produces.

K_help == <<"h", "e", "l", "p">>
K_clear == <<"c", "l", "e", "a", "r">>
K_about == <<"a", "b", "o", "u", "t">>
K_theme == <<"t", "h", "e", "m", "e">>
K_save == <<"s", "a", "v", "e">>
K_stats == <<"s", "t", "a", "t", "s">>
K_reset == <<"r", "e", "s", "e", "t">>
K_templates == <<"t", "e", "m", "p", "l", "a", "t", "e", "s">>
K_voice == <<"v", "o", "i", "c", "e">>
K_pinned == <<"p", "i", "n", "n", "e", "d">>

\* The own keys of the slashCommands object literal
CommandKeys == {K_help, K_clear, K_about, K_theme, K_save, K_stats, K_reset, K_templates, K_voice, K_pinned}

\* Lower-case keys every object literal inherits from Object.prototype:
\* slashCommands[key] is truthy for them and has no action
K_constructor == <<"c", "o", "n", "s", "t", "r", "u", "c", "t", "o", "r">>
K_proto == <<"_", "_", "p", "r", "o", "t", "o", "_", "_">>
InheritedKeys == {K_constructor, K_proto}

\* slashCommands[commandKey] as the condition of line 358 sees it
HasEntry(commandKey) == commandKey \in CommandKeys \/ commandKey \in InheritedKeys

\* One line of the help text: "**/name** - description"
HelpLine(name, description) == <<"**", "/">> \o name \o <<"**", description>>

\* helpText as it would be had a command been registered without a line here
helpText_Stale ==
  <<"Available Commands:">>
    \o HelpLine(K_help, " - Show this help message")
    \o HelpLine(K_clear, " - Clear all messages")
    \o HelpLine(K_about, " - About this chat application")
    \o HelpLine(K_theme, " - Toggle between light/dark theme")
    \o HelpLine(K_save, " - Export current chat")
    \o HelpLine(K_stats, " - Show chat statistics")
    \o HelpLine(K_reset, " - Reset chat and start fresh")
    \o HelpLine(K_templates, " - Show prompt templates")
    \o HelpLine(K_voice, " - Toggle voice input (if supported)")
    \o <<"Type any command to execute it!">>

\* helpText, the template literal of slashCommands.help
helpText ==
  <<"Available Commands:">>
    \o HelpLine(K_help, " - Show this help message")
    \o HelpLine(K_clear, " - Clear all messages")
    \o HelpLine(K_about, " - About this chat application")
    \o HelpLine(K_theme, " - Toggle between light/dark theme")
    \o HelpLine(K_save, " - Export current chat")
    \o HelpLine(K_stats, " - Show chat statistics")
    \o HelpLine(K_reset, " - Reset chat and start fresh")
    \o HelpLine(K_templates, " - Show prompt templates")
    \o HelpLine(K_voice, " - Toggle voice input (if supported)")
    \o HelpLine(K_pinned, " - Show pinned messages panel")
    \o <<"Type any command to execute it!">>

aboutText == <<"AI Chat Assistant", "Version: 1.0.0">>

promptTemplates ==
  << [name |-> "Code Review", category |-> "Development"],
     [name |-> "Writing Assistant", category |-> "Writing"],
     [name |-> "Problem Solver", category |-> "General"],
     [name |-> "Learning Helper", category |-> "Education"],
     [name |-> "Creative Writing", category |-> "Creative"],
     [name |-> "Data Analysis", category |-> "Analytics"] >>

RECURSIVE JoinTemplates(_)
JoinTemplates(ts) ==
  IF ts = <<>> THEN <<>>
  ELSE <<"**", Head(ts).name, "** (", Head(ts).category, ")">> \o JoinTemplates(Tail(ts))

templatesText ==
  <<"Available Prompt Templates">> \o JoinTemplates(promptTemplates)
    \o <<"Click the button in the header to use these templates!">>

UnknownPrefix == "Unknown command: "
HelpHint == "Type /help to see available commands."

\* The content of the unknown-command message (line 365)
unknownText(command) == <<UnknownPrefix>> \o command \o <<HelpHint>>

ApologyText == <<"Sorry, I encountered an error. Please try again.">>
KeyMissingText == <<"API key not found. Set VITE_GEMINI_API_KEY in your .env file.">>
NoResponseText == <<"No response from model.">>

----------------------------------------------------------------------------
\* Inputs of the model.

T_a == <<"a">>
T_b == <<"b">>
T_blank == <<" ">>
T_padded == <<" ", "a", " ">>
T_HELP == <<"/", "H", "E", "L", "P", " ">>
T_unknown == <<"/", "x">>

\* '/' followed by a name
Slash(name) == <<"/">> \o name

\* Texts that are sent to the model, and the blank text
FreeTexts == {T_a, T_b, T_blank}

\* Texts that begin with the command prefix
CommandTexts ==
  {T_HELP, T_unknown, Slash(K_constructor)} \cup {Slash(k) : k \in CommandKeys}

\* What the user types into the input field
TypedTexts == FreeTexts \cup CommandTexts

\* A run types the free texts and one of the command texts
Vocabularies == {FreeTexts \cup {c} : c \in CommandTexts}

\* A run that types free texts only: two texts, or a text and the same
\* text with spaces around it
HistoryVocabularies == {{T_a, T_b}, {T_a, T_padded}}

\* The message ids one run may generate
IdLimit == IF vocabulary \in HistoryVocabularies THEN MaxHistoryId ELSE MaxId

\* What is typed into the login form or passed to login and register
E_valid == <<"a", "@", "b", ".", "c">>
E_invalid == <<"a">>
E_nodot == <<"a", "@", "b">>
Emails == {<<>>, E_invalid, E_nodot, E_valid}

P_long == <<"s", "e", "c", "r", "e", "t">>
P_short == <<"p">>
Passwords == {<<>>, P_short, P_long}

\* Where the address bar, a link or the history can point
Paths == {"login", "register", "chat", "elsewhere"}

\* What the recognizer hears
Transcripts == {T_a}

\* What the model answers on a 2xx response with a generated text
GeneratedText == <<"generated">>

----------------------------------------------------------------------------
\* Messages.

\* generateMessageId: assumed fresh, a counter here.  A message carries
\* timestamp: new Date(), a Date object until it goes through JSON
generateMessageId == nextId

SystemMessage(content) ==
  [id |-> generateMessageId, role |-> "system", content |-> content,
   isCommand |-> TRUE, isPinned |-> FALSE, timestamp |-> "Date"]

UserMessage(content) ==
  [id |-> generateMessageId, role |-> "user", content |-> content,
   isCommand |-> FALSE, isPinned |-> FALSE, timestamp |-> "Date"]

AssistantMessage(content) ==
  [id |-> generateMessageId, role |-> "assistant", content |-> content,
   isCommand |-> FALSE, isPinned |-> FALSE, timestamp |-> "Date"]

\* messages.filter(m => m.role === role).length
CountRole(msgs, role) == Cardinality({i \in 1..Len(msgs) : msgs[i].role = role})

\* prev.filter(m => m.id !== id)
RECURSIVE FilterOutId(_, _)
FilterOutId(msgs, id) ==
  IF msgs = <<>> THEN <<>>
  ELSE IF Head(msgs).id = id THEN FilterOutId(Tail(msgs), id)
  ELSE <<Head(msgs)>> \o FilterOutId(Tail(msgs), id)

\* A map that moves the message to the end of the list
SetPinned_MovesToEnd(msgs, id, flag) ==
  FilterOutId(msgs, id) \o
    [i \in 1..Cardinality({k \in 1..Len(msgs) : msgs[k].id = id}) |->
       [(CHOOSE m \in {msgs[k] : k \in 1..Len(msgs)} : m.id = id) EXCEPT !.isPinned = flag]]

\* prev.map(m => m.id === id ? { ...m, isPinned: flag } : m)
SetPinned(msgs, id, flag) ==
  [i \in 1..Len(msgs) |->
     IF msgs[i].id = id THEN [msgs[i] EXCEPT !.isPinned = flag] ELSE msgs[i]]

----------------------------------------------------------------------------
\* The stored pinned messages.

\* The text of a serialized array with these items
StoredArray(items) == [kind |-> "array", items |-> items]

\* A stored text that is not a serialized array: unparsable text, or the
\* JSON text of null or of an object
StoredOther(kind) == [kind |-> kind, items |-> <<>>]

\* JSON.stringify of a list of messages: a Date is written as its ISO string
stringify(msgs) ==
  StoredArray([i \in 1..Len(msgs) |-> [msgs[i] EXCEPT !.timestamp = "ISO string"]])

\* JSON.stringify(pinnedMessages) for the value the state holds
stringifyPinned(shape, msgs) ==
  IF shape = "array" THEN stringify(msgs) ELSE StoredOther(shape)

----------------------------------------------------------------------------
\* The state after the component is constructed and its mount effects ran,
\* for a run that types one of the vocabularies given, in a browser with
\* one of the themes stored, with or without speech recognition, built
\* with or without the API key
Fresh(vocabularies, themes, voice, keys) ==
  /\ messages = <<>>
  /\ input = <<>>
  /\ isLoading = FALSE
  /\ inputHistory = <<>>
  /\ historyIndex = -1
  /\ isListening = FALSE
  /\ isVoiceSupported \in voice
  /\ showPinnedPanel = FALSE
  /\ pinnedMessages = <<>>
  /\ pinnedShape = "array"
  /\ longPressTimer = 0
  /\ theme \in themes
  /\ storedPinned = StoredArray(<<>>)
  /\ recognizer = "idle"
  /\ timers = {}
  /\ inflight = {}
  /\ apiKey \in keys
  /\ nextId = 1
  /\ nextTimer = 1
  /\ lastOp = "mount"
  /\ threw = FALSE
  /\ effects = {}
  /\ vocabulary \in vocabularies

\* The chat view as the user reaches it: logged in through the login form
Start(vocabularies, themes, voice, keys) ==
  /\ Fresh(vocabularies, themes, voice, keys)
  /\ isAuthenticated = TRUE
  /\ route = "chat"
  /\ credentials = [email |-> E_valid, password |-> P_long]
  /\ loginForm = [email |-> E_valid, password |-> P_long, error |-> <<>>,
                  isLoading |-> FALSE]

Init == Start(Vocabularies, {"light", "dark"}, BOOLEAN, BOOLEAN)

\* The save effect of lines 58-60: it runs after every render that changed
\* pinnedMessages, before the next event is handled
SavePinned == storedPinned' = stringifyPinned(pinnedShape, pinnedMessages')

----------------------------------------------------------------------------
\* The actions of the command registry.  Each leaves input and lastOp to
\* handleSubmit, which calls it.

\* setMessages(prev => [...prev, {role: 'system', ..., id: generateMessageId()}])
AppendSystem(content) ==
  /\ nextId <= IdLimit
  /\ messages' = Append(messages, SystemMessage(content))
  /\ nextId' = nextId + 1

\* A registry whose actions also forget the pinned messages
CommandFrame_ForgetsPinned ==
  /\ pinnedMessages' = <<>>
  /\ storedPinned' = stringify(<<>>)
  /\ UNCHANGED <<isLoading, longPressTimer, timers, inflight, nextTimer>>

\* State no command action writes
CommandFrame ==
  UNCHANGED <<isLoading, pinnedMessages, longPressTimer, storedPinned, timers,
              inflight, nextTimer>>

action_help ==
  /\ AppendSystem(helpText)
  /\ threw' = FALSE /\ effects' = {}
  /\ UNCHANGED <<inputHistory, historyIndex, isListening, showPinnedPanel, theme, recognizer>>

\* clear that empties the input history as reset does
action_clear_AlsoHistory ==
  /\ nextId <= IdLimit
  /\ messages' = <<SystemMessage(<<"Chat cleared successfully!">>)>>
  /\ inputHistory' = <<>>
  /\ historyIndex' = -1
  /\ nextId' = nextId + 1
  /\ threw' = FALSE /\ effects' = {}
  /\ UNCHANGED <<isListening, showPinnedPanel, theme, recognizer>>

action_clear ==
  /\ nextId <= IdLimit
  /\ messages' = <<SystemMessage(<<"Chat cleared successfully!">>)>>
  /\ nextId' = nextId + 1
  /\ threw' = FALSE /\ effects' = {}
  /\ UNCHANGED <<inputHistory, historyIndex, isListening, showPinnedPanel, theme, recognizer>>

action_about ==
  /\ AppendSystem(aboutText)
  /\ threw' = FALSE /\ effects' = {}
  /\ UNCHANGED <<inputHistory, historyIndex, isListening, showPinnedPanel, theme, recognizer>>

\* toggleTheme
toggledTheme == IF theme = "light" THEN "dark" ELSE "light"

action_theme ==
  /\ theme' = toggledTheme
  /\ AppendSystem(<<"Theme switched to ", IF theme = "light" THEN "dark" ELSE "light", " mode!">>)
  /\ threw' = FALSE /\ effects' = {}
  /\ UNCHANGED <<inputHistory, historyIndex, isListening, showPinnedPanel, recognizer>>

\* An export that does not look at the list
exportChat_Always == {"download"}

\* exportChat: what it does outside the state
exportChat == IF Len(messages) = 0 THEN {"alert"} ELSE {"download"}

action_save ==
  /\ effects' = exportChat
  /\ AppendSystem(<<"Chat exported successfully!">>)
  /\ threw' = FALSE
  /\ UNCHANGED <<inputHistory, historyIndex, isListening, showPinnedPanel, theme, recognizer>>

statsText ==
  <<"Chat Statistics",
    "Total Messages: ", ToString(Len(messages)),
    "User Messages: ", ToString(CountRole(messages, "user")),
    "AI Responses: ", ToString(CountRole(messages, "assistant")),
    "System Messages: ", ToString(CountRole(messages, "system")),
    "Pinned Messages: ", ToString(Len(pinnedMessages))>>

action_stats ==
  /\ AppendSystem(statsText)
  /\ threw' = FALSE /\ effects' = {}
  /\ UNCHANGED <<inputHistory, historyIndex, isListening, showPinnedPanel, theme, recognizer>>

\* reset without setInputHistory([]) and setHistoryIndex(-1)
action_reset_KeepsHistory ==
  /\ nextId <= IdLimit
  /\ messages' = <<SystemMessage(<<"Chat reset successfully! Ready for a fresh conversation.">>)>>
  /\ nextId' = nextId + 1
  /\ threw' = FALSE /\ effects' = {}
  /\ UNCHANGED <<inputHistory, historyIndex, isListening, showPinnedPanel, theme, recognizer>>

\* reset without setHistoryIndex(-1)
action_reset_KeepsIndex ==
  /\ nextId <= IdLimit
  /\ messages' = <<SystemMessage(<<"Chat reset successfully! Ready for a fresh conversation.">>)>>
  /\ inputHistory' = <<>>
  /\ nextId' = nextId + 1
  /\ threw' = FALSE /\ effects' = {}
  /\ UNCHANGED <<historyIndex, isListening, showPinnedPanel, theme, recognizer>>

action_reset ==
  /\ nextId <= IdLimit
  /\ messages' = <<SystemMessage(<<"Chat reset successfully! Ready for a fresh conversation.">>)>>
  /\ inputHistory' = <<>>
  /\ historyIndex' = -1
  /\ nextId' = nextId + 1
  /\ threw' = FALSE /\ effects' = {}
  /\ UNCHANGED <<isListening, showPinnedPanel, theme, recognizer>>

action_templates ==
  /\ AppendSystem(templatesText)
  /\ threw' = FALSE /\ effects' = {}
  /\ UNCHANGED <<inputHistory, historyIndex, isListening, showPinnedPanel, theme, recognizer>>

\* recognition.start() throws InvalidStateError on a recognizer that was
\* started and has fired neither end nor error since
startThrows == recognizer # "idle"

\* startListening, called with voice supported: the flag is set before
\* recognition.start() runs
startListening ==
  /\ isListening' = TRUE
  /\ recognizer' = IF startThrows THEN recognizer ELSE "started"

\* stopListening: recognition.stop() lets the recognizer finish, its end
\* event comes later
stopListening ==
  /\ isListening' = FALSE
  /\ UNCHANGED recognizer

action_voice ==
  /\ UNCHANGED <<inputHistory, historyIndex, showPinnedPanel, theme>>
  /\ IF ~isVoiceSupported
       THEN /\ AppendSystem(<<"Voice input is not supported in your browser. Please use Chrome, Edge, or Safari.">>)
            /\ threw' = FALSE /\ effects' = {}
            /\ UNCHANGED <<isListening, recognizer>>
     ELSE IF isListening
       THEN /\ stopListening
            /\ AppendSystem(<<"Voice input stopped.">>)
            /\ threw' = FALSE /\ effects' = {}
     ELSE /\ startListening
          /\ IF startThrows
               THEN /\ threw' = TRUE /\ effects' = {}
                    /\ UNCHANGED <<messages, nextId>>
               ELSE /\ AppendSystem(<<"Voice input started. Speak now!">>)
                    /\ threw' = FALSE /\ effects' = {}

action_pinned ==
  /\ showPinnedPanel' = ~showPinnedPanel
  /\ AppendSystem(<<"Pinned messages panel ", IF showPinnedPanel THEN "hidden" ELSE "shown", "!">>)
  /\ threw' = FALSE /\ effects' = {}
  /\ UNCHANGED <<inputHistory, historyIndex, isListening, theme, recognizer>>

\* slashCommands[commandKey].action()
RunAction(commandKey) ==
  \/ commandKey = K_help /\ action_help
  \/ commandKey = K_clear /\ action_clear
  \/ commandKey = K_about /\ action_about
  \/ commandKey = K_theme /\ action_theme
  \/ commandKey = K_save /\ action_save
  \/ commandKey = K_stats /\ action_stats
  \/ commandKey = K_reset /\ action_reset
  \/ commandKey = K_templates /\ action_templates
  \/ commandKey = K_voice /\ action_voice
  \/ commandKey = K_pinned /\ action_pinned
  \/ /\ commandKey \notin CommandKeys           \* an inherited entry has no action:
     /\ threw' = TRUE /\ effects' = {}          \* TypeError, nothing was queued
     /\ UNCHANGED <<messages, nextId, inputHistory, historyIndex, isListening,
                    showPinnedPanel, theme, recognizer>>

\* The normalised key of lines 355-356
CommandKeyOf(command) == replaceFirst(trim(toLowerCase(command)), "/")

handleSlashCommand(command) ==
  /\ CommandFrame
  /\ IF HasEntry(CommandKeyOf(command))
       THEN RunAction(CommandKeyOf(command))
       ELSE /\ AppendSystem(unknownText(command))
            /\ threw' = FALSE /\ effects' = {}
            /\ UNCHANGED <<inputHistory, historyIndex, isListening, showPinnedPanel,
                           theme, recognizer>>

----------------------------------------------------------------------------
\* The handlers of the component.

\* State of the browser and the build that no handler of the form writes,
\* the kind of value pinnedMessages holds, which only mounting decides, and
\* the session around the chat view
Outside == <<isVoiceSupported, apiKey, vocabulary, pinnedShape, isAuthenticated,
             route, credentials, loginForm>>

\* Controls that are never disabled
Disabled_Never == FALSE

\* disabled={isLoading} of the input field, the voice button and the Send
\* button
Disabled == isLoading

\* <input onChange={(e) => setInput(e.target.value)} disabled={isLoading} />
onChange(text) ==
  /\ ~Disabled
  /\ input' = text
  /\ lastOp' = "onChange" /\ threw' = FALSE /\ effects' = {}
  /\ UNCHANGED <<messages, isLoading, inputHistory, historyIndex, isListening,
                 showPinnedPanel, pinnedMessages, longPressTimer, theme,
                 storedPinned, recognizer, timers, inflight, nextId, nextTimer>>
  /\ UNCHANGED Outside

\* A submission that starts nothing
StartAttempt_Nothing(sub) ==
  /\ inflight' = inflight
  /\ effects' = {}

\* A submission that issues the fetch whether or not the key is set
StartAttempt_AlwaysFetches(sub) ==
  /\ inflight' = inflight \cup {[sub |-> sub, stage |-> "fetch"]}
  /\ effects' = {"fetch"}

\* The completion attempt a submission starts: the one-second timer when
\* the key is missing, the fetch otherwise
StartAttempt(sub) ==
  IF ~apiKey
    THEN /\ inflight' = inflight \cup {[sub |-> sub, stage |-> "timer"]}
         /\ effects' = {}
    ELSE /\ inflight' = inflight \cup {[sub |-> sub, stage |-> "fetch"]}
         /\ effects' = {"fetch"}

\* !input, the test without trim()
IsBlank_NoTrim(text) == text = <<>>

\* !input.trim() of line 515
IsBlank(text) == trim(text) = <<>>

\* A history that takes every submitted text
SavedToHistory_Always(history, text) == <<trim(text)>> \o history

\* Lines 534-537: the trimmed text goes in front of the history unless the
\* first entry is that text
SavedToHistory(history, text) ==
  IF history = <<>> \/ history[1] # trim(text)
    THEN <<trim(text)>> \o history
    ELSE history

\* The form can be submitted only through the input field or the Send
\* button, both disabled while isLoading
SubmitEnabled == ~Disabled

handleSubmit ==
  /\ SubmitEnabled
  /\ lastOp' = "handleSubmit"
  /\ UNCHANGED Outside
  /\ \/ /\ IsBlank(input)                           \* if (!input.trim()) return
        /\ threw' = FALSE /\ effects' = {}
        /\ UNCHANGED <<messages, input, isLoading, inputHistory, historyIndex,
                       isListening, showPinnedPanel, pinnedMessages,
                       longPressTimer, theme, storedPinned, recognizer, timers,
                       inflight, nextId, nextTimer>>
     \/ /\ ~IsBlank(input)
        /\ startsWith(input, "/")
        /\ handleSlashCommand(input)
        /\ input' = IF threw' THEN input ELSE <<>>
     \/ /\ ~IsBlank(input)
        /\ ~startsWith(input, "/")
        /\ nextId + 1 <= IdLimit                     \* an id for the answer too
        /\ messages' = Append(messages, UserMessage(input))
        /\ inputHistory' = SavedToHistory(inputHistory, input)
        /\ historyIndex' = -1
        /\ input' = <<>>
        /\ isLoading' = TRUE
        /\ StartAttempt(nextId)
        /\ nextId' = nextId + 1
        /\ threw' = FALSE
        /\ UNCHANGED <<isListening, showPinnedPanel, pinnedMessages,
                       longPressTimer, theme, storedPinned, recognizer, timers,
                       nextTimer>>

\* A settle that appends to the list without its pins
Settle_DropsFlags(r, content) ==
  /\ messages' = Append([i \in 1..Len(messages) |-> [messages[i] EXCEPT !.isPinned = FALSE]],
                        AssistantMessage(content))
  /\ nextId' = nextId + 1
  /\ isLoading' = FALSE
  /\ inflight' = inflight \ {r}

\* What settling a completion attempt writes: the answer and the flag
Settle(r, content) ==
  /\ messages' = Append(messages, AssistantMessage(content))
  /\ nextId' = nextId + 1
  /\ isLoading' = FALSE
  /\ inflight' = inflight \ {r}

\* A catch block that only logs, followed by the finally block
Caught_Silent(r) ==
  /\ isLoading' = FALSE
  /\ inflight' = inflight \ {r}
  /\ effects' = {"log"}
  /\ UNCHANGED <<messages, nextId>>

\* The catch block of lines 588-598 and the finally block after it: the
\* error is logged and the apology appended
Caught(r) ==
  /\ Settle(r, ApologyText)
  /\ effects' = {"log"}

SettleFrame ==
  /\ lastOp' = "settle" /\ threw' = FALSE
  /\ UNCHANGED <<input, inputHistory, historyIndex, isListening, showPinnedPanel,
                 pinnedMessages, longPressTimer, theme, storedPinned, recognizer,
                 timers, nextTimer>>
  /\ UNCHANGED Outside

\* The timer callback without setIsLoading(false)
MissingKeyTimerFires_KeepsLoading(r) ==
  /\ r.stage = "timer"
  /\ messages' = Append(messages, AssistantMessage(KeyMissingText))
  /\ nextId' = nextId + 1
  /\ inflight' = inflight \ {r}
  /\ effects' = {}
  /\ SettleFrame
  /\ UNCHANGED isLoading

\* The setTimeout callback of lines 543-554
MissingKeyTimerFires(r) ==
  /\ r.stage = "timer"
  /\ Settle(r, KeyMissingText)
  /\ effects' = {}
  /\ SettleFrame

\* await fetch(...): rejected, or resolved with response.ok or without
FetchSettles(r, outcome) ==
  /\ r.stage = "fetch"
  /\ SettleFrame
  /\ IF outcome = "rejected"
       THEN Caught(r)
       ELSE /\ inflight' = (inflight \ {r}) \cup
                 {[r EXCEPT !.stage = IF outcome = "ok" THEN "json" ELSE "text"]}
            /\ effects' = {}
            /\ UNCHANGED <<messages, nextId, isLoading>>

\* The non-2xx path with setIsLoading(false) at the end of the try block
\* instead of in finally
ErrorTextSettles_NoFinally(r) ==
  /\ r.stage = "text"
  /\ SettleFrame
  /\ messages' = Append(messages, AssistantMessage(ApologyText))
  /\ nextId' = nextId + 1
  /\ inflight' = inflight \ {r}
  /\ effects' = {"log"}
  /\ UNCHANGED isLoading

\* await response.text() of a non-2xx response: whatever it gives, line 572
\* throws, and the catch and finally blocks run
ErrorTextSettles(r) ==
  /\ r.stage = "text"
  /\ SettleFrame
  /\ Caught(r)

\* data.candidates?.[0]?.content?.parts?.[0]?.text || 'No response from model.'
generatedTextOf(body) ==
  IF body = "text" THEN GeneratedText ELSE NoResponseText

\* await response.json(): a body with the text, without it, with an empty
\* text, the body null (data.candidates throws), or an unparsable body
JsonSettles(r, body) ==
  /\ r.stage = "json"
  /\ SettleFrame
  /\ IF body \in {"null", "unparsable"}
       THEN Caught(r)
       ELSE Settle(r, generatedTextOf(body)) /\ effects' = {}

Bodies == {"text", "absent", "empty", "null", "unparsable"}

----------------------------------------------------------------------------
\* History navigation.

\* inputHistory[k] of the code, whose positions start at 0
At(k) == inputHistory[k + 1]

\* handleKeyDown that reads the history from its start
handleKeyDown_FromStart(key) ==
  /\ ~Disabled
  /\ lastOp' = key /\ threw' = FALSE /\ effects' = {}
  /\ UNCHANGED <<messages, isLoading, inputHistory, isListening, showPinnedPanel,
                 pinnedMessages, longPressTimer, theme, storedPinned, recognizer,
                 timers, inflight, nextId, nextTimer>>
  /\ UNCHANGED Outside
  /\ IF key = "ArrowUp"
       THEN IF historyIndex < Len(inputHistory) - 1
              THEN /\ historyIndex' = historyIndex + 1
                   /\ input' = At(historyIndex + 1)
              ELSE UNCHANGED <<historyIndex, input>>
       ELSE IF historyIndex > 0
              THEN /\ historyIndex' = historyIndex - 1
                   /\ input' = At(historyIndex - 1)
              ELSE IF historyIndex = 0
                THEN /\ historyIndex' = -1
                     /\ input' = <<>>
                ELSE UNCHANGED <<historyIndex, input>>

\* handleKeyDown, for ArrowUp and ArrowDown; the field is disabled while
\* isLoading and then receives no key
handleKeyDown(key) ==
  /\ ~Disabled
  /\ lastOp' = key /\ threw' = FALSE /\ effects' = {}
  /\ UNCHANGED <<messages, isLoading, inputHistory, isListening, showPinnedPanel,
                 pinnedMessages, longPressTimer, theme, storedPinned, recognizer,
                 timers, inflight, nextId, nextTimer>>
  /\ UNCHANGED Outside
  /\ IF key = "ArrowUp"
       THEN IF historyIndex < Len(inputHistory) - 1
              THEN /\ historyIndex' = historyIndex + 1
                   /\ input' = At(Len(inputHistory) - 1 - (historyIndex + 1))
              ELSE IF historyIndex = -1 /\ Len(inputHistory) > 0
                THEN /\ historyIndex' = 0
                     /\ input' = At(Len(inputHistory) - 1)
                ELSE UNCHANGED <<historyIndex, input>>
       ELSE IF historyIndex > 0
              THEN /\ historyIndex' = historyIndex - 1
                   /\ input' = At(Len(inputHistory) - 1 - (historyIndex - 1))
              ELSE IF historyIndex = 0
                THEN /\ historyIndex' = -1
                     /\ input' = <<>>
                ELSE UNCHANGED <<historyIndex, input>>

----------------------------------------------------------------------------
\* Pinning.

\* togglePinMessage whose unpin branch forgets the flag in messages
togglePinMessage_UnpinKeepsFlag(message) ==
  /\ IF message.id = 0
       THEN UNCHANGED <<pinnedMessages, messages>>
     ELSE IF message.isPinned
       THEN /\ pinnedMessages' = FilterOutId(pinnedMessages, message.id)
            /\ UNCHANGED messages
       ELSE /\ pinnedMessages' = Append(pinnedMessages, [message EXCEPT !.isPinned = TRUE])
            /\ messages' = SetPinned(messages, message.id, TRUE)
  /\ SavePinned

\* togglePinMessage(message): the two functional updates, and the save
\* effect that follows the render
togglePinMessage(message) ==
  /\ IF message.id = 0
       THEN UNCHANGED <<pinnedMessages, messages>>
     ELSE IF message.isPinned
       THEN /\ pinnedMessages' = FilterOutId(pinnedMessages, message.id)
            /\ messages' = SetPinned(messages, message.id, FALSE)
       ELSE /\ pinnedMessages' = Append(pinnedMessages, [message EXCEPT !.isPinned = TRUE])
            /\ messages' = SetPinned(messages, message.id, TRUE)
  /\ SavePinned

PinFrame ==
  /\ threw' = FALSE /\ effects' = {}
  /\ UNCHANGED <<input, isLoading, inputHistory, historyIndex, isListening,
                 showPinnedPanel, theme, recognizer, inflight, nextId>>
  /\ UNCHANGED Outside

\* The pin button of a message row (lines 742-755)
ClickPin(i) ==
  /\ i \in 1..Len(messages)
  /\ togglePinMessage(messages[i])
  /\ lastOp' = "clickPin"
  /\ PinFrame
  /\ UNCHANGED <<longPressTimer, timers, nextTimer>>

\* The unpin button of the pinned panel (lines 870-876)
ClickPanelPin(j) ==
  /\ showPinnedPanel
  /\ j \in 1..Len(pinnedMessages)
  /\ togglePinMessage(pinnedMessages[j])
  /\ lastOp' = "clickPanelPin"
  /\ PinFrame
  /\ UNCHANGED <<longPressTimer, timers, nextTimer>>

\* clearTimeout(longPressTimer)
clearTimeout(handle) == {t \in timers : t.handle # handle}

\* handleMouseDown(message): onMouseDown and onTouchStart of a row.  The
\* callback keeps the message of the render in which it was armed
handleMouseDown(i) ==
  /\ i \in 1..Len(messages)
  /\ nextTimer <= MaxTimers
  /\ timers' = (IF longPressTimer # 0 THEN clearTimeout(longPressTimer) ELSE timers)
                 \cup {[handle |-> nextTimer, message |-> messages[i]]}
  /\ longPressTimer' = nextTimer
  /\ nextTimer' = nextTimer + 1
  /\ lastOp' = "handleMouseDown"
  /\ PinFrame
  /\ UNCHANGED <<messages, pinnedMessages, storedPinned>>

\* handleMouseUp that forgets the handle and leaves the timer running
handleMouseUp_KeepsTimer ==
  /\ Len(messages) > 0
  /\ longPressTimer' = 0
  /\ lastOp' = "handleMouseUp"
  /\ PinFrame
  /\ UNCHANGED <<messages, pinnedMessages, storedPinned, nextTimer, timers>>

\* handleMouseUp: onMouseUp and onTouchEnd of a row
handleMouseUp ==
  /\ Len(messages) > 0
  /\ IF longPressTimer # 0
       THEN /\ timers' = clearTimeout(longPressTimer)
            /\ longPressTimer' = 0
       ELSE UNCHANGED <<timers, longPressTimer>>
  /\ lastOp' = "handleMouseUp"
  /\ PinFrame
  /\ UNCHANGED <<messages, pinnedMessages, storedPinned, nextTimer>>

\* handleMouseLeave: onMouseLeave of a row
handleMouseLeave ==
  /\ Len(messages) > 0
  /\ IF longPressTimer # 0
       THEN /\ timers' = clearTimeout(longPressTimer)
            /\ longPressTimer' = 0
       ELSE UNCHANGED <<timers, longPressTimer>>
  /\ lastOp' = "handleMouseLeave"
  /\ PinFrame
  /\ UNCHANGED <<messages, pinnedMessages, storedPinned, nextTimer>>

\* The setTimeout callback of handleMouseDown, 500 ms after it was armed
LongPressFires(t) ==
  /\ t \in timers
  /\ togglePinMessage(t.message)
  /\ timers' = timers \ {t}
  /\ lastOp' = "longPress"
  /\ PinFrame
  /\ UNCHANGED <<longPressTimer, nextTimer>>

----------------------------------------------------------------------------
\* Header buttons, the voice button and the recognizer's events.

ViewFrame ==
  UNCHANGED <<messages, input, isLoading, inputHistory, historyIndex,
              pinnedMessages, longPressTimer, storedPinned, timers, inflight,
              nextId, nextTimer, isVoiceSupported, apiKey, vocabulary, pinnedShape,
              isAuthenticated, route, credentials, loginForm>>

\* The pinned-messages button and the close button of the panel
TogglePinnedPanel ==
  /\ showPinnedPanel' = ~showPinnedPanel
  /\ lastOp' = "togglePinnedPanel" /\ effects' = {}
  /\ threw' = (showPinnedPanel' /\ pinnedShape # "array")   \* pinnedMessages.map of line 855
  /\ ViewFrame
  /\ UNCHANGED <<theme, isListening, recognizer>>

\* The theme button
ToggleTheme ==
  /\ theme' = toggledTheme
  /\ lastOp' = "toggleTheme" /\ threw' = FALSE /\ effects' = {}
  /\ ViewFrame
  /\ UNCHANGED <<showPinnedPanel, isListening, recognizer>>

\* The Export Chat button of the export dialog (line 705)
ExportClick ==
  /\ effects' = exportChat
  /\ lastOp' = "exportChat" /\ threw' = FALSE
  /\ ViewFrame
  /\ UNCHANGED <<showPinnedPanel, theme, isListening, recognizer>>

\* The voice button: onClick={isListening ? stopListening : startListening},
\* rendered when voice is supported, disabled while isLoading
VoiceButton ==
  /\ isVoiceSupported
  /\ ~Disabled
  /\ IF isListening
       THEN stopListening /\ threw' = FALSE
       ELSE startListening /\ threw' = startThrows
  /\ lastOp' = "voiceButton" /\ effects' = {}
  /\ ViewFrame
  /\ UNCHANGED <<showPinnedPanel, theme>>

RecognizerFrame ==
  /\ threw' = FALSE
  /\ UNCHANGED <<messages, isLoading, inputHistory, historyIndex, showPinnedPanel,
                 pinnedMessages, longPressTimer, theme, storedPinned, timers,
                 inflight, nextId, nextTimer, isVoiceSupported, apiKey, vocabulary,
                 pinnedShape, isAuthenticated, route, credentials, loginForm>>

\* An onresult handler that sets the input to the transcript
RecognitionResult_Replaces(transcript) ==
  /\ recognizer = "started"
  /\ Len(input) + Len(transcript) <= MaxInput
  /\ input' = transcript
  /\ isListening' = FALSE
  /\ recognizer' = "resulted"
  /\ lastOp' = "onresult" /\ effects' = {}
  /\ RecognizerFrame

\* recognition.onresult
RecognitionResult(transcript) ==
  /\ recognizer = "started"
  /\ Len(input) + Len(transcript) <= MaxInput
  /\ input' = input \o transcript
  /\ isListening' = FALSE
  /\ recognizer' = "resulted"
  /\ lastOp' = "onresult" /\ effects' = {}
  /\ RecognizerFrame

\* recognition.onerror
RecognitionError(error) ==
  /\ recognizer = "started"
  /\ isListening' = FALSE
  /\ recognizer' = "idle"
  /\ effects' = IF error = "no-speech" THEN {"alert"} ELSE {}
  /\ lastOp' = "onerror"
  /\ UNCHANGED input
  /\ RecognizerFrame

\* recognition.onend
RecognitionEnd ==
  /\ recognizer \in {"started", "resulted"}
  /\ isListening' = FALSE
  /\ recognizer' = "idle"
  /\ lastOp' = "onend" /\ effects' = {}
  /\ UNCHANGED input
  /\ RecognizerFrame

----------------------------------------------------------------------------
\* The effects of lines 46-60 after the first render, and the render that
\* follows.  The load effect parses the stored text and queues the value it
\* got, whatever it is; a text that does not parse is logged.  The save
\* effect of the first render then stores the empty list.  The second
\* render reads pinnedMessages.length (line 624), which throws on null; when
\* it succeeds, the save effect stores the value again.
\* A mount that never reads the stored text
MountEffects_StartsEmpty ==
  /\ pinnedShape' = "array"
  /\ pinnedMessages' = <<>>
  /\ storedPinned' = stringify(<<>>)
  /\ threw' = FALSE /\ effects' = {}

MountEffects ==
  CASE storedPinned.kind = "array" ->
         /\ pinnedShape' = "array"
         /\ pinnedMessages' = storedPinned.items
         /\ storedPinned' = stringifyPinned(pinnedShape', pinnedMessages')
         /\ threw' = FALSE /\ effects' = {}
    [] storedPinned.kind = "unparsable" ->
         /\ pinnedShape' = "array"
         /\ pinnedMessages' = <<>>
         /\ storedPinned' = stringifyPinned(pinnedShape', pinnedMessages')
         /\ threw' = FALSE /\ effects' = {"log"}
    [] storedPinned.kind = "null" ->
         /\ pinnedShape' = "null"
         /\ pinnedMessages' = <<>>
         /\ storedPinned' = stringify(<<>>)
         /\ threw' = TRUE /\ effects' = {}
    [] OTHER ->
         /\ pinnedShape' = storedPinned.kind
         /\ pinnedMessages' = <<>>
         /\ storedPinned' = stringifyPinned(pinnedShape', pinnedMessages')
         /\ threw' = FALSE /\ effects' = {}

\* Leaving the chat view and coming back, or reloading the page: the state
\* is created anew and the mount effects run.  Timers and requests of the
\* old view are gone.
MountChat ==
  /\ messages' = <<>>
  /\ input' = <<>>
  /\ isLoading' = FALSE
  /\ inputHistory' = <<>>
  /\ historyIndex' = -1
  /\ isListening' = FALSE
  /\ showPinnedPanel' = FALSE
  /\ MountEffects
  /\ longPressTimer' = 0
  /\ recognizer' = "idle"
  /\ timers' = {}
  /\ inflight' = {}
  /\ UNCHANGED <<theme, nextId, nextTimer, isVoiceSupported, apiKey, vocabulary>>

Remount ==
  /\ route = "chat"
  /\ MountChat
  /\ lastOp' = "mount"
  /\ UNCHANGED <<isAuthenticated, route, credentials, loginForm>>

\* A render threw and React removed the view
ViewFailed == threw /\ lastOp \in {"mount", "togglePinnedPanel"}

\* The stored text is replaced from outside the view: the user edits the
\* storage, or another page of the site writes the key
Unserializable == {"unparsable", "null", "object"}

StorageWritten(kind) ==
  /\ storedPinned' = StoredOther(kind)
  /\ lastOp' = "storage" /\ threw' = FALSE /\ effects' = {}
  /\ UNCHANGED <<messages, input, isLoading, inputHistory, historyIndex, isListening,
                 showPinnedPanel, pinnedMessages, longPressTimer, theme, recognizer,
                 timers, inflight, nextId, nextTimer>>
  /\ UNCHANGED Outside

----------------------------------------------------------------------------
\* The session: AuthProvider, the routes and the login form.

\* The state of the Chat component and of the browser around it
chatState ==
  <<messages, input, isLoading, inputHistory, historyIndex, isListening,
    isVoiceSupported, showPinnedPanel, pinnedMessages, pinnedShape, longPressTimer,
    theme, storedPinned, recognizer, timers, inflight, apiKey, nextId, nextTimer,
    vocabulary>>

\* login of AuthProvider: what a call does
login(email, password) ==
  IF email # <<>> /\ password # <<>> THEN "authenticated" ELSE "throws"

\* register of AuthProvider: what a call does
register(email, password) ==
  IF email # <<>> /\ password # <<>> THEN "authenticated" ELSE "throws"

\* What a call of login or register leaves behind
Called(outcome, email, password) ==
  /\ credentials' = [email |-> email, password |-> password]
  /\ isAuthenticated' = IF outcome = "authenticated" THEN TRUE ELSE isAuthenticated
  /\ threw' = (outcome = "throws")
  /\ effects' = {}
  /\ UNCHANGED <<route, loginForm>>
  /\ UNCHANGED chatState

\* A consumer of the context calls login; the chat view is not one
LoginCall(email, password) ==
  /\ route # "chat"
  /\ Called(login(email, password), email, password)
  /\ lastOp' = "login"

\* A consumer of the context calls register; the chat view is not one
RegisterCall(email, password) ==
  /\ route # "chat"
  /\ Called(register(email, password), email, password)
  /\ lastOp' = "register"

\* Login as it is mounted: lines 8-11
FreshForm == [email |-> <<>>, password |-> <<>>, error |-> <<>>, isLoading |-> FALSE]

\* The login form is mounted anew when the router comes to show it
FormShown(reloaded) ==
  loginForm' = IF route' = "login" /\ (reloaded \/ route # "login")
                 THEN FreshForm
                 ELSE loginForm

\* logout of AuthProvider; ProtectedRoute then leaves the chat view
logout ==
  /\ isAuthenticated' = FALSE
  /\ route' = IF route = "chat" THEN "login" ELSE route
  /\ FormShown(FALSE)
  /\ lastOp' = "logout" /\ threw' = FALSE /\ effects' = {}
  /\ UNCHANGED credentials
  /\ UNCHANGED chatState

\* A route guard that lets everyone in
ProtectedRoute_Open(authenticated) == "chat"

\* ProtectedRoute: the chat view, or the redirection to /login
ProtectedRoute(authenticated) == IF authenticated THEN "chat" ELSE "login"

\* AppRoutes: the view a path leads to
AppRoutes(path, authenticated) ==
  CASE path = "chat" -> ProtectedRoute(authenticated)
    [] path \in {"login", "register"} -> path
    [] OTHER -> "login"

\* The router shows the view of a path: the chat view is mounted when it
\* was not shown before
Shows(view) ==
  /\ route' = view
  /\ IF view = "chat" /\ route # "chat"
       THEN MountChat
       ELSE /\ threw' = FALSE /\ effects' = {}
            /\ UNCHANGED chatState

\* /^[^\s@]+@[^\s@]+\.[^\s@]+$/.test(email)
validateEmail(email) ==
  \E i, j \in 1..Len(email) :
    /\ email[i] = "@" /\ email[j] = "."
    /\ 1 < i /\ i + 1 < j /\ j < Len(email)
    /\ \A k \in 1..Len(email) : k # i => email[k] \notin {" ", "@"}

\* The messages of lines 25 and 30
EmailError == <<"Please enter a valid email address">>
PasswordError == <<"Password must be at least 6 characters long">>

\* What the form holds when handleSubmit returns
Form(email, password, error) ==
  [email |-> email, password |-> password, error |-> error, isLoading |-> FALSE]

\* handleSubmit of the login form without the check of line 29
LoginSubmit_NoPasswordCheck(email, password) ==
  /\ route = "login"
  /\ lastOp' = "loginSubmit"
  /\ IF ~validateEmail(email)
       THEN /\ loginForm' = Form(email, password, EmailError)
            /\ threw' = FALSE /\ effects' = {}
            /\ UNCHANGED <<isAuthenticated, route, credentials>>
            /\ UNCHANGED chatState
     ELSE IF login(email, password) = "authenticated"
       THEN /\ credentials' = [email |-> email, password |-> password]
            /\ isAuthenticated' = TRUE
            /\ Shows(AppRoutes("chat", TRUE))
            /\ loginForm' = Form(email, password, <<>>)
       ELSE /\ credentials' = [email |-> email, password |-> password]
            /\ loginForm' = Form(email, password, <<"Invalid credentials">>)
            /\ threw' = FALSE /\ effects' = {}
            /\ UNCHANGED <<isAuthenticated, route>>
            /\ UNCHANGED chatState

\* handleSubmit of the login form, with the fields as they were typed:
\* setError(''), the two checks, setIsLoading(true), await login (which
\* has nothing to wait for, so that the rest runs before any other
\* event), navigate('/chat') or the catch block, and the finally block
LoginSubmit(email, password) ==
  /\ route = "login"
  /\ lastOp' = "loginSubmit"
  /\ IF ~validateEmail(email)
       THEN /\ loginForm' = Form(email, password, EmailError)
            /\ threw' = FALSE /\ effects' = {}
            /\ UNCHANGED <<isAuthenticated, route, credentials>>
            /\ UNCHANGED chatState
     ELSE IF Len(password) < 6
       THEN /\ loginForm' = Form(email, password, PasswordError)
            /\ threw' = FALSE /\ effects' = {}
            /\ UNCHANGED <<isAuthenticated, route, credentials>>
            /\ UNCHANGED chatState
     ELSE IF login(email, password) = "authenticated"
       THEN /\ credentials' = [email |-> email, password |-> password]
            /\ isAuthenticated' = TRUE
            /\ Shows(AppRoutes("chat", TRUE))
            /\ loginForm' = Form(email, password, <<>>)
       ELSE /\ credentials' = [email |-> email, password |-> password]
            /\ loginForm' = Form(email, password, <<"Invalid credentials">>)
            /\ threw' = FALSE /\ effects' = {}
            /\ UNCHANGED <<isAuthenticated, route>>
            /\ UNCHANGED chatState

\* A link or the history changes the path inside the running application
Navigate(path) ==
  /\ Shows(AppRoutes(path, isAuthenticated))
  /\ lastOp' = "navigate"
  /\ FormShown(FALSE)
  /\ UNCHANGED <<isAuthenticated, credentials>>

\* The page is loaded anew at a path: the flag starts false again
Reload(path) ==
  /\ isAuthenticated' = FALSE
  /\ Shows(AppRoutes(path, FALSE))
  /\ lastOp' = "reload"
  /\ FormShown(TRUE)
  /\ UNCHANGED credentials

----------------------------------------------------------------------------
\* Typing, submitting, history keys and the life of a completion attempt
Conversation ==
  \/ \E text \in vocabulary : onChange(text)
  \/ handleSubmit
  \/ \E r \in inflight : MissingKeyTimerFires(r)
  \/ \E r \in inflight : \E outcome \in {"ok", "notok", "rejected"} : FetchSettles(r, outcome)
  \/ \E r \in inflight : ErrorTextSettles(r)
  \/ \E r \in inflight : \E body \in Bodies : JsonSettles(r, body)
  \/ Remount

\* The conversation with its input history
Next ==
  \/ Conversation
  \/ \E key \in {"ArrowUp", "ArrowDown"} : handleKeyDown(key)
  \/ ToggleTheme
  \/ ExportClick

Spec == Init /\ [][Next]_vars

\* The conversation with pinning: the pin buttons of the rows and of the
\* panel, and the long press
PinVocabularies == {{T_a, Slash(K_clear)}}

InitPins == Start(PinVocabularies, {"light"}, {FALSE}, {TRUE})

NextPins ==
  \/ \E text \in vocabulary : onChange(text)
  \/ handleSubmit
  \/ \E r \in inflight : \E outcome \in {"ok", "rejected"} : FetchSettles(r, outcome)
  \/ \E r \in inflight : JsonSettles(r, "text")
  \/ Remount
  \/ \E i \in 1..Len(messages) : ClickPin(i)
  \/ \E j \in 1..Len(pinnedMessages) : ClickPanelPin(j)
  \/ \E i \in 1..Len(messages) : nextTimer <= MaxPinTimers /\ handleMouseDown(i)
  \/ handleMouseUp
  \/ handleMouseLeave
  \/ \E t \in timers : LongPressFires(t)
  \/ TogglePinnedPanel

SpecPins == InitPins /\ [][NextPins]_vars

\* The conversation with speech input: the voice command, the voice button
\* and the recognizer's events
VoiceVocabularies == {{T_a, Slash(K_voice)}}

InitVoice == Start(VoiceVocabularies, {"light"}, BOOLEAN, BOOLEAN)

NextVoice ==
  \/ Conversation
  \/ VoiceButton
  \/ \E transcript \in Transcripts : RecognitionResult(transcript)
  \/ \E error \in {"no-speech", "network"} : RecognitionError(error)
  \/ RecognitionEnd

SpecVoice == InitVoice /\ [][NextVoice]_vars

\* The conversation with the pin buttons and the stored pinned messages:
\* leaving the view and coming back, and the stored text replaced from
\* outside.  A view that failed handles nothing until it is mounted again.
StoreVocabularies == {{T_a, Slash(K_clear)}, {T_a, Slash(K_reset)}}

InitStore == Start(StoreVocabularies, {"light"}, {FALSE}, {TRUE})

StoreHandlers ==
  \/ \E text \in vocabulary : onChange(text)
  \/ handleSubmit
  \/ \E r \in inflight : FetchSettles(r, "ok")
  \/ \E r \in inflight : JsonSettles(r, "text")
  \/ \E i \in 1..Len(messages) : pinnedShape = "array" /\ ClickPin(i)
  \/ TogglePinnedPanel

NextStore ==
  \/ ~ViewFailed /\ StoreHandlers
  \/ Remount
  \/ \E kind \in Unserializable : StorageWritten(kind)

SpecStore == InitStore /\ [][NextStore]_vars

\* The conversation with presses on its rows: pointer or finger down, up
\* and away, and the long press
PressVocabularies == {{T_a}}

InitPress == Start(PressVocabularies, {"light"}, {FALSE}, {TRUE})

NextPress ==
  \/ \E text \in vocabulary : onChange(text)
  \/ handleSubmit
  \/ \E r \in inflight : FetchSettles(r, "ok")
  \/ \E r \in inflight : JsonSettles(r, "text")
  \/ \E i \in 1..Len(messages) : handleMouseDown(i)
  \/ handleMouseUp
  \/ handleMouseLeave
  \/ \E t \in timers : LongPressFires(t)

SpecPress == InitPress /\ [][NextPress]_vars

\* The application from its start: the login form, login, register and
\* logout, the routes, and the conversation once the chat view is shown
AuthVocabularies == {{T_a}}

InitAuth ==
  /\ Fresh(AuthVocabularies, {"light"}, {FALSE}, {TRUE})
  /\ isAuthenticated = FALSE
  /\ route = "login"
  /\ credentials = [email |-> <<>>, password |-> <<>>]
  /\ loginForm = FreshForm

ChatHandlers ==
  \/ \E text \in vocabulary : onChange(text)
  \/ handleSubmit
  \/ \E r \in inflight : FetchSettles(r, "ok")
  \/ \E r \in inflight : JsonSettles(r, "text")

NextAuth ==
  \/ \E email \in Emails : \E password \in Passwords : LoginSubmit(email, password)
  \/ \E email \in Emails : \E password \in Passwords : LoginCall(email, password)
  \/ \E email \in Emails : \E password \in Passwords : RegisterCall(email, password)
  \/ logout
  \/ \E path \in Paths : Navigate(path)
  \/ \E path \in Paths : Reload(path)
  \/ route = "chat" /\ ChatHandlers

SpecAuth == InitAuth /\ [][NextAuth]_vars

\* The conversation of free texts with its input history, long enough for
\* three submissions
InitHistory == Start(HistoryVocabularies, {"light"}, {FALSE}, BOOLEAN)

NextHistory ==
  \/ \E text \in vocabulary : onChange(text)
  \/ handleSubmit
  \/ \E r \in inflight : MissingKeyTimerFires(r)
  \/ \E r \in inflight : FetchSettles(r, "rejected")
  \/ \E key \in {"ArrowUp", "ArrowDown"} : handleKeyDown(key)

SpecHistory == InitHistory /\ [][NextHistory]_vars

\* The conversation of free texts whose pending timers and requests are
\* eventually served: the one-second timer of line 543 fires, and each of
\* await fetch, await response.text() and await response.json() resumes
InitLive == Start(HistoryVocabularies, {"light"}, {FALSE}, BOOLEAN)

Resumes ==
  \/ \E r \in inflight : MissingKeyTimerFires(r)
  \/ \E r \in inflight : \E outcome \in {"ok", "notok", "rejected"} : FetchSettles(r, outcome)
  \/ \E r \in inflight : ErrorTextSettles(r)
  \/ \E r \in inflight : \E body \in Bodies : JsonSettles(r, body)

NextLive ==
  \/ \E text \in vocabulary : onChange(text)
  \/ handleSubmit
  \/ Resumes

SpecLive == InitLive /\ [][NextLive]_vars /\ WF_vars(Resumes)

----------------------------------------------------------------------------
\* Properties.

\* The last message of a non-empty list
Last(msgs) == msgs[Len(msgs)]

\* The step is a submit of a text that begins with the command prefix
CommandSubmit ==
  /\ lastOp' = "handleSubmit"
  /\ ~IsBlank(input)
  /\ startsWith(input, "/")

\* The step appended exactly one message, of this role
AppendedOne(role) ==
  /\ Len(messages') = Len(messages) + 1
  /\ SubSeq(messages', 1, Len(messages)) = messages
  /\ Last(messages').role = role

\* Ids of the user messages of a list
UserIds(msgs) == {msgs[i].id : i \in {k \in 1..Len(msgs) : msgs[k].role = "user"}}

\* C1: in every reachable state, a message of messages has isPinned set
\* if and only if pinnedMessages holds a message with its id.
C1_PinFlagMirrorsPinned ==
  \A i \in 1..Len(messages) :
    messages[i].isPinned <=>
      \E j \in 1..Len(pinnedMessages) : pinnedMessages[j].id = messages[i].id

\* C1 witness: after the long-press timer fired, messages holds a pinned
\* and an unpinned message, and the panel holds a message that is gone.
C1_Witness ==
  /\ lastOp = "longPress"
  /\ \E i \in 1..Len(messages) : messages[i].isPinned
  /\ \E i \in 1..Len(messages) : ~messages[i].isPinned
  /\ \E j \in 1..Len(pinnedMessages) :
       \A i \in 1..Len(messages) : messages[i].id # pinnedMessages[j].id

\* C2: a submit of an empty or whitespace-only input changes neither
\* messages, inputHistory, historyIndex nor the input, isLoading stays
\* false and no request is started.
C2_BlankSubmitIsNoOp ==
  [][(lastOp' = "handleSubmit" /\ trim(input) = <<>>) =>
       /\ messages' = messages
       /\ inputHistory' = inputHistory
       /\ historyIndex' = historyIndex
       /\ input' = input
       /\ ~isLoading /\ ~isLoading'
       /\ inflight' = inflight
       /\ "fetch" \notin effects']_vars

\* C2 witness: a whitespace-only input was submitted and is still there.
C2_Witness ==
  /\ lastOp = "handleSubmit"
  /\ input = T_blank
  /\ ~isLoading

\* C3 as stated: a submit of a text beginning with '/' appends no user
\* message and leaves inputHistory exactly as it was.
C3_Original ==
  [][CommandSubmit =>
       /\ UserIds(messages') \subseteq UserIds(messages)
       /\ inputHistory' = inputHistory]_vars

\* C3 amended: a submit of a text beginning with '/' appends no user
\* message and leaves inputHistory as it was, except that /reset empties it.
C3_CommandKeepsHistoryUnlessReset ==
  [][CommandSubmit =>
       /\ UserIds(messages') \subseteq UserIds(messages)
       /\ inputHistory' =
            IF CommandKeyOf(input) = K_reset THEN <<>> ELSE inputHistory]_vars

\* C3 witness: a command was submitted with a text in the history, and
\* its system message is the last one.
C3_Witness ==
  /\ lastOp = "handleSubmit"
  /\ ~threw
  /\ input = <<>>
  /\ inputHistory # <<>>
  /\ messages # <<>>
  /\ Last(messages).role = "system"

\* C4 as stated: with inputHistory = ["b", "a"], ArrowUp from index -1
\* sets the input to "b", from index 0 to "a", and from index 1 changes
\* neither the input nor the index.
C4_Claim ==
  [][(lastOp' = "ArrowUp" /\ inputHistory = <<T_b, T_a>>) =>
       /\ historyIndex = -1 => input' = T_b
       /\ historyIndex = 0 => input' = T_a
       /\ historyIndex = 1 => (input' = input /\ historyIndex' = historyIndex)]_vars

\* C5 as stated: a submit of a text beginning with '/' whose normalized
\* name is not registered appends exactly one system message that holds the
\* text and the hint, clears the input, does not throw and starts nothing.
C5_Claim ==
  [][(CommandSubmit /\ CommandKeyOf(input) \notin CommandKeys) =>
       /\ ~threw'
       /\ AppendedOne("system")
       /\ includes(Last(messages').content, input)
       /\ includes(Last(messages').content, <<HelpHint>>)
       /\ input' = <<>>
       /\ UserIds(messages') \subseteq UserIds(messages)
       /\ ~isLoading'
       /\ inflight' = inflight
       /\ "fetch" \notin effects']_vars

\* The step ends a completion attempt whose remote call threw or came
\* back with a non-2xx status
FailedAttemptEnds ==
  /\ lastOp' = "settle"
  /\ \/ "log" \in effects'
     \/ \E r \in inflight : r.stage = "text" /\ r \notin inflight'

\* C6: when the remote call of a submission throws or returns a non-2xx
\* status, exactly one assistant message with the apology is appended for
\* it, isLoading is false afterwards and nothing is thrown.
C6_FailureGivesOneApology ==
  [][FailedAttemptEnds =>
       /\ AppendedOne("assistant")
       /\ Last(messages').content = ApologyText
       /\ ~isLoading'
       /\ ~threw'
       /\ inflight' = {}]_vars

\* C6 witness: a failed attempt has ended with the apology.
C6_Witness ==
  /\ lastOp = "settle"
  /\ "log" \in effects
  /\ messages # <<>>
  /\ Last(messages).content = ApologyText
  /\ ~isLoading

\* A remote completion request is outstanding
RequestOutstanding == \E r \in inflight : r.stage \in {"fetch", "text", "json"}

\* C7 as stated: isLoading is true if and only if a remote completion
\* request is outstanding.
C7_Original == isLoading <=> RequestOutstanding

\* C7 amended: isLoading is true if and only if a completion attempt of a
\* submission is pending, a remote request or the missing-key timer.
C7_LoadingIffAttemptPending == isLoading <=> inflight # {}

\* C7 witness: the missing-key timer is pending and isLoading is true.
C7_Witness ==
  /\ isLoading
  /\ \E r \in inflight : r.stage = "timer"

\* Submissions with an attempt in flight
Subs(attempts) == {r.sub : r \in attempts}

\* C8: at most one completion attempt is outstanding at any time; only a
\* submit made while isLoading is false starts one, and it starts one.
C8_OneAttemptAtATime ==
  /\ [](Cardinality(inflight) <= 1)
  /\ [][/\ ~(Subs(inflight') \subseteq Subs(inflight)) =>
             /\ lastOp' = "handleSubmit"
             /\ ~isLoading
             /\ Cardinality(Subs(inflight') \ Subs(inflight)) = 1
        /\ "fetch" \in effects' => lastOp' = "handleSubmit"]_vars

\* C8 witness: a submit has started an attempt, which is the only one.
C8_Witness ==
  /\ lastOp = "handleSubmit"
  /\ isLoading
  /\ Cardinality(inflight) = 1

\* C9 as stated: a submit of a registered command does not throw and adds
\* exactly one system message flagged isCommand, alone in the list for
\* clear and reset, appended to it for the others.
C9_Claim ==
  [][(CommandSubmit /\ CommandKeyOf(input) \in CommandKeys) =>
       /\ ~threw'
       /\ messages' # <<>>
       /\ Last(messages').role = "system"
       /\ Last(messages').isCommand
       /\ IF CommandKeyOf(input) \in {K_clear, K_reset}
            THEN Len(messages') = 1
            ELSE AppendedOne("system")]_vars

\* C10: a submit of /help, in any letter case and with spaces after it,
\* appends exactly one system message that names every registered command.
C10_HelpNamesEveryCommand ==
  [][(CommandSubmit /\ trim(toLowerCase(input)) = Slash(K_help)) =>
       /\ AppendedOne("system")
       /\ \A k \in CommandKeys : includes(Last(messages').content, Slash(k))]_vars

\* C10 witness: /HELP with a trailing space was submitted and answered
\* with the help text.
C10_Witness ==
  /\ lastOp = "handleSubmit"
  /\ T_HELP \in vocabulary
  /\ messages # <<>>
  /\ includes(Last(messages).content, <<"Available Commands:">>)

\* The messages list is exactly one system confirmation with this text
OnlyConfirmation(msgs, content) ==
  /\ Len(msgs) = 1
  /\ msgs[1].role = "system"
  /\ msgs[1].isCommand
  /\ msgs[1].content = content

\* C11: after /clear, messages is exactly one system confirmation and
\* inputHistory and historyIndex are as before; after /reset, messages is
\* exactly one system confirmation, inputHistory is empty and historyIndex
\* is -1.
C11_ClearKeepsHistoryResetEmptiesIt ==
  [][/\ (CommandSubmit /\ CommandKeyOf(input) = K_clear) =>
          /\ OnlyConfirmation(messages', <<"Chat cleared successfully!">>)
          /\ inputHistory' = inputHistory
          /\ historyIndex' = historyIndex
     /\ (CommandSubmit /\ CommandKeyOf(input) = K_reset) =>
          /\ OnlyConfirmation(messages', <<"Chat reset successfully! Ready for a fresh conversation.">>)
          /\ inputHistory' = <<>>
          /\ historyIndex' = -1]_vars

\* C11 witness: /clear was submitted while the history held a text and
\* the index pointed into it, and both are still there.
C11_Witness ==
  /\ lastOp = "handleSubmit"
  /\ OnlyConfirmation(messages, <<"Chat cleared successfully!">>)
  /\ inputHistory # <<>>
  /\ historyIndex = 0

\* C12: /clear and /reset leave pinnedMessages and the stored pinned
\* messages as they were.
C12_ClearAndResetKeepPinned ==
  [][(CommandSubmit /\ CommandKeyOf(input) \in {K_clear, K_reset}) =>
       /\ pinnedMessages' = pinnedMessages
       /\ pinnedShape' = pinnedShape
       /\ storedPinned' = storedPinned]_vars

\* C12 witness: after /reset a pinned message is still in pinnedMessages
\* and in the store, and no longer in messages.
C12_Witness ==
  /\ lastOp = "handleSubmit"
  /\ OnlyConfirmation(messages, <<"Chat reset successfully! Ready for a fresh conversation.">>)
  /\ pinnedShape = "array"
  /\ pinnedMessages # <<>>
  /\ storedPinned = stringify(pinnedMessages)
  /\ \A j \in 1..Len(pinnedMessages) : pinnedMessages[j].id # messages[1].id

\* The step is a mount of the view
Mounts == lastOp' = "mount"

\* C13 as stated: after every change of pinnedMessages the store holds
\* its snapshot, and after a mount pinnedMessages equals the value it had
\* before while messages and inputHistory are empty and historyIndex is -1.
C13_Original ==
  [][/\ pinnedMessages' # pinnedMessages => storedPinned' = stringify(pinnedMessages')
     /\ Mounts =>
          /\ pinnedMessages' = pinnedMessages
          /\ messages' = <<>>
          /\ inputHistory' = <<>>
          /\ historyIndex' = -1]_vars

\* C13 amended: after every change of pinnedMessages the store holds its
\* snapshot, and after a mount pinnedMessages holds the messages it held
\* before as the snapshot has them, each timestamp an ISO string, while
\* messages and inputHistory are empty and historyIndex is -1.
C13_MountRestoresSnapshot ==
  [][/\ pinnedMessages' # pinnedMessages => storedPinned' = stringify(pinnedMessages')
     /\ Mounts =>
          /\ pinnedMessages' = stringify(pinnedMessages).items
          /\ storedPinned' = stringify(pinnedMessages')
          /\ messages' = <<>>
          /\ inputHistory' = <<>>
          /\ historyIndex' = -1]_vars

\* C13 witness: the view was mounted again and holds a pinned message,
\* read from the store, next to an empty conversation.
C13_Witness ==
  /\ lastOp = "mount"
  /\ pinnedMessages # <<>>
  /\ pinnedMessages[1].timestamp = "ISO string"
  /\ storedPinned = stringify(pinnedMessages)
  /\ messages = <<>>

\* C14 as stated: mounting the view on a stored text that is not a
\* serialized array leaves pinnedMessages the empty list and the view does
\* not fail.
C14_Claim ==
  [][(Mounts /\ storedPinned.kind # "array") =>
       /\ pinnedShape' = "array"
       /\ pinnedMessages' = <<>>
       /\ ~threw']_vars

\* The step is an export, from the dialog or by /save
Exports ==
  \/ lastOp' = "exportChat"
  \/ CommandSubmit /\ CommandKeyOf(input) = K_save

\* C15: an export with no messages alerts the user and downloads nothing;
\* an export with messages makes one download and no alert.
C15_ExportAlertsOnEmptyList ==
  [][Exports =>
       IF messages = <<>>
         THEN "alert" \in effects' /\ "download" \notin effects'
         ELSE "download" \in effects' /\ "alert" \notin effects']_vars

\* C15 witness: the export button was pressed on an empty conversation
\* and the user was alerted.
C15_Witness ==
  /\ lastOp = "exportChat"
  /\ messages = <<>>
  /\ effects = {"alert"}

\* The step is an exit of a press: pointer up, finger up or pointer away
PressExits == lastOp' \in {"handleMouseUp", "handleMouseLeave"}

\* C16: at most one long-press timer is pending; a pointer-up, touch-end
\* or pointer-leave leaves none pending; only a pointer-down or touch-start
\* arms one; and the timer that fires is the one armed by the last
\* pointer-down or touch-start, with no exit since.
C16_ExitCancelsLongPress ==
  /\ [](Cardinality(timers) <= 1)
  /\ [][/\ PressExits => (timers' = {} /\ longPressTimer' = 0)
        /\ ~(timers' \subseteq timers) => lastOp' = "handleMouseDown"
        /\ lastOp' = "longPress" =>
             \E t \in timers : t.handle = longPressTimer /\ t \notin timers']_vars

\* C16 witness: two presses were armed in the run, and the pointer-up that
\* followed the second left no timer pending and no message pinned.
C16_Witness ==
  /\ lastOp = "handleMouseUp"
  /\ nextTimer = 3
  /\ timers = {}
  /\ longPressTimer = 0
  /\ \A i \in 1..Len(messages) : ~messages[i].isPinned

\* The step is a call of login or register, directly or by the login form
AuthCall == lastOp' \in {"login", "register", "loginSubmit"}

\* C17: the chat view is shown only while isAuthenticated is true; the
\* flag is false at the start and after a reload; it becomes true only by
\* a login or register call with a non-empty email and a non-empty
\* password; and a call with an empty email or password throws and leaves
\* the flag as it was.
C17_ChatOnlyWhileAuthenticated ==
  /\ ~isAuthenticated
  /\ [](route = "chat" => isAuthenticated)
  /\ [][/\ lastOp' = "reload" => ~isAuthenticated'
        /\ (~isAuthenticated /\ isAuthenticated') =>
             /\ AuthCall
             /\ credentials'.email # <<>>
             /\ credentials'.password # <<>>
        /\ (/\ lastOp' \in {"login", "register"}
            /\ (credentials'.email = <<>> \/ credentials'.password = <<>>)) =>
             /\ threw'
             /\ isAuthenticated' = isAuthenticated]_vars

\* C17 witness: the login form was submitted and the chat view is shown.
C17_Witness ==
  /\ lastOp = "loginSubmit"
  /\ route = "chat"
  /\ isAuthenticated
  /\ credentials = [email |-> E_valid, password |-> P_long]

\* The entry of inputHistory at a position counted from 0
Entry(position) == inputHistory[position + 1]

\* C18: ArrowUp with historyIndex below the last index increments it and
\* sets the input to the entry at position length - 1 - newIndex, and
\* otherwise changes nothing; ArrowDown with historyIndex above 0
\* decrements it and sets the input to the entry at the mirrored position,
\* with historyIndex 0 sets it to -1 and empties the input, and with
\* historyIndex -1 changes nothing.  Neither changes inputHistory.
C18_HistoryNavigate ==
  [][/\ lastOp' = "ArrowUp" =>
          /\ inputHistory' = inputHistory
          /\ IF historyIndex < Len(inputHistory) - 1
               THEN /\ historyIndex' = historyIndex + 1
                    /\ input' = Entry(Len(inputHistory) - 1 - historyIndex')
               ELSE /\ historyIndex' = historyIndex
                    /\ input' = input
     /\ lastOp' = "ArrowDown" =>
          /\ inputHistory' = inputHistory
          /\ IF historyIndex > 0
               THEN /\ historyIndex' = historyIndex - 1
                    /\ input' = Entry(Len(inputHistory) - 1 - historyIndex')
             ELSE IF historyIndex = 0
               THEN /\ historyIndex' = -1
                    /\ input' = <<>>
             ELSE /\ historyIndex' = historyIndex
                  /\ input' = input]_vars

\* C18 witness: the second ArrowUp on a history of two different texts
\* shows the entry at position 0.
C18_Witness ==
  /\ lastOp = "ArrowUp"
  /\ Len(inputHistory) = 2
  /\ inputHistory[1] # inputHistory[2]
  /\ historyIndex = 1
  /\ input = inputHistory[1]

\* The step is a submit of a text that is not blank and does not begin
\* with the command prefix
FreeSubmit ==
  /\ lastOp' = "handleSubmit"
  /\ trim(input) # <<>>
  /\ ~startsWith(input, "/")

\* Ids of the messages of a list
Ids(msgs) == {msgs[i].id : i \in 1..Len(msgs)}

\* C19: a submit of a non-empty text that does not begin with '/' appends
\* exactly one user message with a fresh id, prepends the trimmed text to
\* inputHistory if and only if it differs from the first entry, sets
\* historyIndex to -1, empties the input, sets isLoading and starts exactly
\* one completion attempt.
C19_FreeSubmit ==
  [][FreeSubmit =>
       /\ AppendedOne("user")
       /\ Last(messages').content = input
       /\ Last(messages').id \notin Ids(messages) \cup Ids(pinnedMessages)
       /\ inputHistory' =
            IF inputHistory # <<>> /\ inputHistory[1] = trim(input)
              THEN inputHistory
              ELSE <<trim(input)>> \o inputHistory
       /\ historyIndex' = -1
       /\ input' = <<>>
       /\ isLoading'
       /\ inflight \subseteq inflight'
       /\ Cardinality(inflight' \ inflight) = 1]_vars

\* C19 witness: after "a", the same text with spaces around it was
\* submitted: it is the last message, and the history holds "a" once.
C19_Witness ==
  /\ lastOp = "handleSubmit"
  /\ isLoading
  /\ Len(messages) = 3
  /\ Last(messages).content = T_padded
  /\ inputHistory = <<T_a>>
  /\ Cardinality(inflight) = 1

\* C20 as stated: inputHistory never has two equal entries next to each
\* other.
C20_NoAdjacentDuplicates ==
  \A i \in 1..(Len(inputHistory) - 1) : inputHistory[i] # inputHistory[i + 1]

\* C20 witness: after "a", "b" and "a" were submitted the history holds
\* the three of them, the two equal entries apart.
C20_Witness ==
  /\ lastOp = "handleSubmit"
  /\ inputHistory = <<T_a, T_b, T_a>>

\* The id, role and content of each message of a list, in order
Core(msgs) ==
  [i \in 1..Len(msgs) |-> <<msgs[i].id, msgs[i].role, msgs[i].content>>]

\* One list is the beginning of the other
IsPrefix(short, long) ==
  Len(short) <= Len(long) /\ SubSeq(long, 1, Len(short)) = short

\* The step is a Toggle Pin call: a pin button or the long press
TogglesPin == lastOp' \in {"clickPin", "clickPanelPin", "longPress"}

\* C21: in every step of the mounted view other than /clear and /reset the
\* ids, roles and contents of messages before the step are the beginning
\* of those after it; a Toggle Pin step leaves them as they are and
\* changes at most the isPinned flag of the messages with one id.
C21_MessagesAppendOnly ==
  [][/\ (/\ ~Mounts
         /\ ~(CommandSubmit /\ CommandKeyOf(input) \in {K_clear, K_reset})) =>
          IsPrefix(Core(messages), Core(messages'))
     /\ TogglesPin =>
          /\ Core(messages') = Core(messages)
          /\ \E id \in 0..IdLimit :
               \A i \in 1..Len(messages) :
                 \/ messages'[i] = messages[i]
                 \/ /\ messages[i].id = id
                    /\ messages'[i] = [messages[i] EXCEPT !.isPinned = ~@]]_vars

\* C21 witness: the second of three messages was pinned by its button and
\* the list is otherwise as it was.
C21_Witness ==
  /\ lastOp = "clickPin"
  /\ Len(messages) = 3
  /\ ~messages[1].isPinned
  /\ messages[2].isPinned
  /\ ~messages[3].isPinned
  /\ Core(messages) = <<<<1, "user", T_a>>, <<2, "assistant", GeneratedText>>,
                        <<3, "user", T_a>>>>

\* C22: every accepted submission eventually settles, given that the
\* missing-key timer fires and the transport answers: its attempt ends
\* with isLoading false, and the step that ends an attempt appends exactly
\* one assistant message, while no other step appends an assistant message.
C22_SubmissionSettles ==
  /\ \A sub \in 1..MaxHistoryId :
       (sub \in Subs(inflight)) ~> (sub \notin Subs(inflight) /\ ~isLoading)
  /\ [][IF Subs(inflight') # Subs(inflight) /\ Subs(inflight') \subseteq Subs(inflight)
          THEN AppendedOne("assistant") /\ ~isLoading'
          ELSE CountRole(messages', "assistant") = CountRole(messages, "assistant")]_vars

\* C22 witness: one submission ended in the apology and the next one in
\* the placeholder of a response without text; nothing is pending.
C22_Witness ==
  /\ ~isLoading
  /\ inflight = {}
  /\ Len(messages) = 4
  /\ \E i \in 1..4 : messages[i].content = ApologyText
  /\ Last(messages).role = "assistant"
  /\ Last(messages).content = NoResponseText

\* C23: with the API key missing, a submission of free text issues no
\* network call and sets isLoading, which stays true while its delay runs;
\* the end of the delay appends exactly one assistant message, whose
\* content says that the key is missing, and sets isLoading to false.
C23_MissingKey ==
  /\ [](~apiKey =>
         /\ \A r \in inflight : r.stage = "timer"
         /\ inflight # {} => isLoading)
  /\ [][~apiKey =>
         /\ "fetch" \notin effects'
         /\ FreeSubmit => isLoading' /\ Cardinality(inflight' \ inflight) = 1
         /\ lastOp' = "settle" =>
              /\ AppendedOne("assistant")
              /\ Last(messages').content = KeyMissingText
              /\ ~isLoading'
         /\ CountRole(messages', "assistant") # CountRole(messages, "assistant") =>
              lastOp' = "settle"]_vars

\* C23 witness: without the key, the delay of the one submission has ended
\* and the message about the key is the answer.
C23_Witness ==
  /\ ~apiKey
  /\ lastOp = "settle"
  /\ ~isLoading
  /\ inflight = {}
  /\ Len(messages) = 2
  /\ messages[1].role = "user"
  /\ messages[2].role = "assistant"
  /\ messages[2].content = KeyMissingText

\* Bodies that response.json() parses
Parsable == Bodies \ {"unparsable"}

\* C24: a 2xx response with a parsable body appends exactly one assistant
\* message: its content is the first generated text when the body has
\* that field (the text, or the empty text), and the placeholder when the
\* field is structurally absent (a body without it, or the body null).
C24_Claim ==
  [][\A r \in inflight : \A body \in Parsable :
       JsonSettles(r, body) =>
         /\ AppendedOne("assistant")
         /\ Last(messages').content =
              CASE body = "text" -> GeneratedText
                [] body = "empty" -> <<>>
                [] OTHER -> NoResponseText]_vars

\* The step appends the answer of a completion attempt
Answers == lastOp' = "settle" /\ Len(messages') > Len(messages)

\* What the answer of an attempt leaves alone: the messages before it with
\* their flags, and pinnedMessages
KeepsPins ==
  Answers =>
    /\ AppendedOne("assistant")
    /\ pinnedMessages' = pinnedMessages

\* C25: while a completion request is outstanding the pin button of every
\* message and the history keys are enabled, and the step that appends
\* the response keeps every isPinned flag and pinnedMessages as the wait
\* left them and appends the assistant message.
C25_Original ==
  /\ [](isLoading =>
         /\ \A i \in 1..Len(messages) : ENABLED ClickPin(i)
         /\ \A key \in {"ArrowUp", "ArrowDown"} : ENABLED handleKeyDown(key))
  /\ [][KeepsPins]_vars

\* C25 as the code has it: while a completion request is outstanding the
\* pin button of every message is enabled and the history keys are not
\* (the input field is disabled), and the step that appends the response
\* keeps every isPinned flag and pinnedMessages as the wait left them and
\* appends the assistant message.
C25_PinsSurviveTheWait ==
  /\ [](isLoading =>
         /\ \A i \in 1..Len(messages) : ENABLED ClickPin(i)
         /\ \A key \in {"ArrowUp", "ArrowDown"} : ~ENABLED handleKeyDown(key))
  /\ [][KeepsPins]_vars

\* C25 witness: the user message of the first exchange was pinned while
\* its request was outstanding, and the response has been appended.
C25_Witness ==
  /\ lastOp = "settle"
  /\ Core(messages) = <<<<1, "user", T_a>>, <<2, "assistant", GeneratedText>>>>
  /\ messages[1].isPinned
  /\ ~messages[2].isPinned
  /\ Len(pinnedMessages) = 1
  /\ pinnedMessages[1].id = 1

\* The step is a submit of the voice command
VoiceSubmit == CommandSubmit /\ CommandKeyOf(input) = K_voice

\* C26: a recognition result appends its transcript to the end of the
\* input; after a result, an error or an end event, and after
\* stopListening (the voice button or /voice while listening), isListening
\* is false; without speech support /voice appends one system message
\* that says so, and isListening is never true.
C26_Speech ==
  /\ [](~isVoiceSupported => ~isListening)
  /\ [][/\ lastOp' = "onresult" =>
            \E transcript \in Transcripts : input' = input \o transcript
        /\ lastOp' \in {"onresult", "onerror", "onend"} => ~isListening'
        /\ (isListening /\ (lastOp' = "voiceButton" \/ VoiceSubmit)) => ~isListening'
        /\ (~isVoiceSupported /\ VoiceSubmit) =>
            /\ AppendedOne("system")
            /\ Last(messages').content =
                 <<"Voice input is not supported in your browser. Please use Chrome, Edge, or Safari.">>
            /\ ~isListening']_vars

\* C26 witness: a result arrived while the input held "a", and the input
\* is now "a" followed by the transcript; the view is not listening.
C26_Witness ==
  /\ lastOp = "onresult"
  /\ input = T_a \o T_a
  /\ ~isListening
  /\ isVoiceSupported

\* C27: a submit of the login form with an email that does not match the
\* address pattern or a password shorter than 6 sets the inline error,
\* calls no login, navigates nowhere and leaves the form's isLoading
\* false; any other submit calls login with the fields, navigates to the
\* chat only if login did not throw, and leaves isLoading false.
C27_LoginForm ==
  [][lastOp' = "loginSubmit" =>
       IF ~validateEmail(loginForm'.email) \/ Len(loginForm'.password) < 6
         THEN /\ loginForm'.error \in {EmailError, PasswordError}
              /\ isAuthenticated' = isAuthenticated
              /\ credentials' = credentials
              /\ route' = route
              /\ ~loginForm'.isLoading
         ELSE /\ credentials' = [email |-> loginForm'.email,
                                  password |-> loginForm'.password]
              /\ IF login(loginForm'.email, loginForm'.password) = "authenticated"
                   THEN route' = "chat" /\ isAuthenticated' /\ loginForm'.error = <<>>
                   ELSE route' = route /\ loginForm'.error # <<>>
              /\ ~loginForm'.isLoading]_vars

\* C27 witness: the form was submitted with an address without a dot after
\* the @ and a long password; the error is shown and nobody is logged in.
C27_Witness ==
  /\ lastOp = "loginSubmit"
  /\ loginForm = [email |-> E_nodot, password |-> P_long, error |-> EmailError,
                  isLoading |-> FALSE]
  /\ route = "login"
  /\ ~isAuthenticated
  /\ credentials = [email |-> <<>>, password |-> <<>>]

\* C28: historyIndex is at least -1 and at most the last index of
\* inputHistory, in every reachable state.
C28_HistoryIndexInRange ==
  /\ -1 <= historyIndex
  /\ historyIndex <= Len(inputHistory) - 1

\* C28 witness: ArrowUp was pressed until the oldest of two entries, and
\* historyIndex is the last index.
C28_Witness ==
  /\ lastOp = "ArrowUp"
  /\ Len(inputHistory) = 2
  /\ historyIndex = 1
  /\ input = inputHistory[2]

\* C29: pinnedMessages never holds two entries with the same id, whatever
\* the sequence of Toggle Pin calls from the message list, the pinned
\* panel and the long-press timer, with clear and reload in between.
C29_Claim ==
  \A i, j \in 1..Len(pinnedMessages) :
    pinnedMessages[i].id = pinnedMessages[j].id => i = j

\* C30: with submissions possible only while isLoading is false, the
\* number of user messages exceeds the number of assistant messages by 1
\* while isLoading and by 0 otherwise, and while isLoading the last
\* message is the user message whose answer is pending.
C30_UserAssistantBalance ==
  /\ CountRole(messages, "user") - CountRole(messages, "assistant") =
       IF isLoading THEN 1 ELSE 0
  /\ isLoading =>
       /\ messages # <<>>
       /\ Last(messages).role = "user"
       /\ \E r \in inflight : r.sub = Last(messages).id

\* C30 witness: a second free text was submitted after a complete
\* exchange and is waiting for its answer.
C30_Witness ==
  /\ isLoading
  /\ Len(messages) = 3
  /\ CountRole(messages, "user") = 2
  /\ CountRole(messages, "assistant") = 1
  /\ Last(messages).role = "user"

\* The step appended the message that reports a successful export
ReportsExport ==
  /\ Len(messages') > 0
  /\ Last(messages').content = <<"Chat exported successfully!">>
  /\ Last(messages').id \notin Ids(messages)

\* C31: the system message 'Chat exported successfully!' is appended only
\* by a step whose export produced a download; /save submitted while
\* messages is empty appends no such message.
C31_Claim ==
  [][/\ ReportsExport => "download" \in effects'
     /\ (CommandSubmit /\ CommandKeyOf(input) = K_save /\ messages = <<>>) =>
          ~ReportsExport]_vars

====
